---- MODULE Spec2Model ----
(***************************************************************************)
(* Model of saga/utils/random_variable.py: the RandomVariable class, a     *)
(* discretised probability density over a grid, and its arithmetic.        *)
(*                                                                         *)
(* Numbers.  A numpy float is modelled as an exact rational <<n, d>> in    *)
(* lowest terms with d > 0; the non-finite floats are <<1, 0>> (inf),      *)
(* <<-1, 0>> (-inf) and <<0, 0>> (nan).  Rounding is not modelled.         *)
(*                                                                         *)
(* Storage.  Every numpy array lives in `heap` under a reference; a        *)
(* RandomVariable holds the references of its x and pdf arrays, so that    *)
(* aliasing and in-place updates are visible.                              *)
(***************************************************************************)
EXTENDS Integers, Sequences, FiniteSets, TLC

\* ------------------------------------------------------------------ bounds
MaxLen == 2        \* longest array handed to the constructor
NumGrid == 3       \* points of the common grid (100000 in the source)
NumSamples == 2    \* samples drawn per operand (1000000 in the source)
MaxBins == 2       \* most bins np.histogram(bins='auto') chooses
MaxArgs == 2       \* most arguments handed to max()

\* ------------------------------------------------------- float arithmetic
Abs(n) == IF n < 0 THEN -n ELSE n
Sign(n) == IF n < 0 THEN -1 ELSE IF n > 0 THEN 1 ELSE 0

RECURSIVE GCD(_, _)
GCD(a, b) == IF b = 0 THEN a ELSE GCD(b, a % b)

\* n/d with d > 0, cancelled by their common divisor g.
Cancel(n, d, g) == <<n \div g, d \div g>>

\* The float n/d; a zero denominator gives inf, -inf or nan.
Q(n, d) ==
    IF d = 0 THEN <<Sign(n), 0>>
    ELSE Cancel(Sign(d) * n, Abs(d), GCD(Abs(n), Abs(d)))

Num(n) == <<n, 1>>
NaN == <<0, 0>>
IsNaN(a) == a = NaN
IsFinite(a) == a[2] # 0

QNeg(a) == <<-a[1], a[2]>>

\* a + b for finite a and b, g the common divisor of their denominators.
AddOver(a, b, g) ==
    Q(a[1] * (b[2] \div g) + b[1] * (a[2] \div g), a[2] * (b[2] \div g))

QAdd(a, b) ==
    IF IsFinite(a) /\ IsFinite(b) THEN AddOver(a, b, GCD(a[2], b[2]))
    ELSE IF IsNaN(a) \/ IsNaN(b) THEN NaN
    ELSE IF IsFinite(a) THEN b
    ELSE IF IsFinite(b) THEN a
    ELSE IF a = b THEN a ELSE NaN

QSub(a, b) == QAdd(a, QNeg(b))

\* a * b for finite a and b, cancelling g and k crosswise first.
MulOver(a, b, g, k) ==
    Q((a[1] \div g) * (b[1] \div k), (a[2] \div k) * (b[2] \div g))

QMul(a, b) ==
    IF IsFinite(a) /\ IsFinite(b) THEN
        MulOver(a, b, GCD(Abs(a[1]), b[2]), GCD(Abs(b[1]), a[2]))
    ELSE IF IsNaN(a) \/ IsNaN(b) THEN NaN
    ELSE Q(Sign(a[1]) * Sign(b[1]), 0)

\* a / b for finite a and b # 0, cancelling g and k first.
DivOver(a, b, g, k) ==
    Q((a[1] \div g) * (b[2] \div k), (a[2] \div k) * (b[1] \div g))

QDiv(a, b) ==
    IF IsFinite(a) /\ IsFinite(b) THEN
        (IF b[1] = 0 THEN <<Sign(a[1]), 0>>
         ELSE DivOver(a, b, GCD(Abs(a[1]), Abs(b[1])), GCD(a[2], b[2])))
    ELSE IF IsNaN(a) \/ IsNaN(b) THEN NaN
    ELSE IF IsFinite(a) THEN Num(0)
    ELSE IF IsFinite(b) THEN Q(Sign(a[1]) * (IF b[1] < 0 THEN -1 ELSE 1), 0)
    ELSE NaN

\* a < b for finite a and b, g the common divisor of their denominators.
LtOver(a, b, g) == a[1] * (b[2] \div g) < b[1] * (a[2] \div g)

\* Comparisons are false as soon as one side is nan.
QLt(a, b) ==
    IF IsNaN(a) \/ IsNaN(b) THEN FALSE
    ELSE IF IsFinite(a) /\ IsFinite(b) THEN LtOver(a, b, GCD(a[2], b[2]))
    ELSE IF IsFinite(a) THEN b[1] > 0
    ELSE IF IsFinite(b) THEN a[1] < 0
    ELSE a[1] < b[1]

QEq(a, b) == ~IsNaN(a) /\ ~IsNaN(b) /\ a = b
QLe(a, b) == QLt(a, b) \/ QEq(a, b)

\* ------------------------------------------------------- array arithmetic
\* A numpy array of the values f[1], ..., f[n]: it holds the values, each
\* computed once when the array is made.
Array(f) == SubSeq(f, 1, Len(f))

Map1(Op(_), s) == Array([i \in 1..Len(s) |-> Op(s[i])])
Map2(Op(_, _), s, t) == Array([i \in 1..Len(s) |-> Op(s[i], t[i])])

ArrAddScalar(s, c) == Array([i \in 1..Len(s) |-> QAdd(s[i], c)])
ArrMulScalar(s, c) == Array([i \in 1..Len(s) |-> QMul(s[i], c)])
ArrDivScalar(s, c) == Array([i \in 1..Len(s) |-> QDiv(s[i], c)])
ArrNeg(s) == Array([i \in 1..Len(s) |-> QNeg(s[i])])
ArrMul(s, t) == Array([i \in 1..Len(s) |-> QMul(s[i], t[i])])
ArrDiv(s, t) == Array([i \in 1..Len(s) |-> QDiv(s[i], t[i])])
Reversed(s) == Array([i \in 1..Len(s) |-> s[Len(s) + 1 - i]])
Take(s, p) == Array([i \in 1..Len(p) |-> s[p[i]]])

RECURSIVE NpSum(_)
NpSum(s) == IF Len(s) = 0 THEN Num(0) ELSE QAdd(NpSum(SubSeq(s, 1, Len(s) - 1)), s[Len(s)])

CumSum(s) == Array([i \in 1..Len(s) |-> NpSum(SubSeq(s, 1, i))])

\* The smaller and the larger of two floats.
Lesser(m, v) == IF QLt(m, v) THEN m ELSE v
Greater(m, v) == IF QLt(v, m) THEN m ELSE v

RECURSIVE QMin(_)
QMin(s) == IF Len(s) = 1 THEN s[1] ELSE Lesser(QMin(Tail(s)), s[1])

RECURSIVE QMax(_)
QMax(s) == IF Len(s) = 1 THEN s[1] ELSE Greater(QMax(Tail(s)), s[1])

\* ------------------------------------------------------------ numpy calls
\* np.argsort(x): the default kind is an unstable quicksort, so any
\* permutation that puts x in order may come back.
ArgSort(x) ==
    {p \in Permutations(1..Len(x)) :
        \A i \in 1..(Len(x) - 1) : ~QLt(x[p[i + 1]], x[p[i]])}

\* np.linspace(start, stop, num), num >= 2.
Linspace(start, stop, num) ==
    LET step == QDiv(QSub(stop, start), Num(num - 1))
    IN  Array([i \in 1..num |->
                  IF i = num THEN stop ELSE QAdd(start, QMul(Num(i - 1), step))])

\* binary_search_with_guess of np.interp: the index j with
\* xp[j] <= key < xp[j + 1], here 1-based, for xp[1] <= key <= xp[n];
\* `stops` are the indices whose xp lies beyond key.
FirstStop(n, stops) ==
    IF stops = {} THEN n ELSE (CHOOSE i \in stops : \A k \in stops : i <= k) - 1

SearchIndex(key, xp) ==
    FirstStop(Len(xp), {i \in 2..Len(xp) : ~(QLe(xp[i], key))})

\* The interpolated value np.interp returns between xp[j] and xp[j + 1]:
\* r1 taken from the left end and, should that be nan, r2 from the right.
InterpPick(fp, j, r1, r2) ==
    IF ~IsNaN(r1) THEN r1
    ELSE IF IsNaN(r2) /\ QEq(fp[j], fp[j + 1]) THEN fp[j]
    ELSE r2

InterpSlope(x, xp, fp, j, slope) ==
    InterpPick(fp, j,
               QAdd(QMul(slope, QSub(x, xp[j])), fp[j]),
               QAdd(QMul(slope, QSub(x, xp[j + 1])), fp[j + 1]))

InterpAt(x, xp, fp, j) ==
    IF j = Len(xp) THEN fp[j]
    ELSE IF QEq(xp[j], x) THEN fp[j]
    ELSE InterpSlope(x, xp, fp, j,
                     QDiv(QSub(fp[j + 1], fp[j]), QSub(xp[j + 1], xp[j])))

\* np.interp(x, xp, fp) at one point x.
Interp1(x, xp, fp) ==
    IF Len(xp) = 1 THEN
        (IF QLt(x, xp[1]) THEN fp[1] ELSE IF QLt(xp[1], x) THEN fp[Len(xp)] ELSE fp[1])
    ELSE IF IsNaN(x) THEN x
    ELSE IF QLt(xp[Len(xp)], x) THEN fp[Len(xp)]
    ELSE IF QLt(x, xp[1]) THEN fp[1]
    ELSE InterpAt(x, xp, fp, SearchIndex(x, xp))

Interp(xs, xp, fp) == Array([i \in 1..Len(xs) |-> Interp1(xs[i], xp, fp)])

\* np.convolve(a, v, mode='same') for len(a) = len(v) = n: the n central
\* entries of the full convolution, starting at its entry (n - 1) \div 2.
ConvFull(a, v, k) ==
    LET n == Len(a)
        lo == IF k - (n - 1) > 0 THEN k - (n - 1) ELSE 0
        hi == IF k < n - 1 THEN k ELSE n - 1
    IN  NpSum(Array([m \in 1..(hi - lo + 1) |->
                        QMul(a[lo + m], v[k - (lo + m - 1) + 1])]))

ConvolveSame(a, v) ==
    LET n == Len(a)
    IN  Array([i \in 1..n |-> ConvFull(a, v, ((n - 1) \div 2) + i - 1)])

\* a[np.isfinite(a)]
FiniteOnly(a) == SelectSeq(a, IsFinite)

\* np.histogram(a, bins, density=True) with `bins` equal-width bins over
\* [min, max]; an empty `a` is binned over [0, 1] and a single-valued one
\* over [v - 1/2, v + 1/2].  The result is <<density, edges>>.
QFloor(a) == a[1] \div a[2]

\* The bin a value falls in: the last bin is closed on the right.
BinOf(v, lo, hi, width, bins) ==
    IF v = hi THEN bins ELSE QFloor(QDiv(QSub(v, lo), width)) + 1

HistBins(a, bins, lo, hi, width) ==
    <<Array([b \in 1..bins |->
                QDiv(QDiv(Num(Cardinality({i \in 1..Len(a) :
                                              BinOf(a[i], lo, hi, width, bins) = b})),
                          width),
                     Num(Len(a)))]),
      Linspace(lo, hi, bins + 1)>>

\* The range that is binned, as <<lo, hi>>.
Widen(lo, hi) ==
    IF lo = hi THEN <<QSub(lo, Q(1, 2)), QAdd(hi, Q(1, 2))>> ELSE <<lo, hi>>

HistRange(a) == IF Len(a) = 0 THEN <<Num(0), Num(1)>> ELSE Widen(QMin(a), QMax(a))

HistOver(a, bins, range) ==
    HistBins(a, bins, range[1], range[2],
             QDiv(QSub(range[2], range[1]), Num(bins)))

Histogram(a, bins) == HistOver(a, bins, HistRange(a))

\* The bin counts bins='auto' may choose: one bin when there is no spread.
AutoBins(a) ==
    IF Len(a) = 0 \/ QMin(a) = QMax(a) THEN {1} ELSE 1..MaxBins

\* (edges[:-1] + edges[1:]) / 2
BinCentres(edges) ==
    Array([i \in 1..(Len(edges) - 1) |-> QDiv(QAdd(edges[i], edges[i + 1]), Num(2))])

\* ------------------------------------------------------------- the store
VARIABLES
    heap,   \* reference -> array: every numpy array that is still referenced
    objs,   \* the RandomVariables made so far: x and pdf references, and `by`,
            \* the call that made each one
    last    \* the last call: its name, its arguments and what it returned

vars == <<heap, objs, last>>

\* What a call works on and returns.  A value is a RandomVariable (its two
\* references), a plain number, or something that is neither.
RVVal(x, pdf) == [tag |-> "rv", x |-> x, pdf |-> pdf, v |-> NaN]
NumVal(c) == [tag |-> "num", x |-> 0, pdf |-> 0, v |-> c]
BadVal == [tag |-> "bad", x |-> 0, pdf |-> 0, v |-> NaN]

\* An outcome of a call: the heap it leaves and the value it returns, which
\* is a RandomVariable ("rv"), a number ("num"), an array ("arr"), the
\* square root of a number ("sqrt") or a raised exception (its name).
Ret(h, kind, x, pdf, v, arr) ==
    [h |-> h, kind |-> kind, x |-> x, pdf |-> pdf, v |-> v, arr |-> arr]
RetRV(h, x, pdf) == Ret(h, "rv", x, pdf, NaN, <<>>)
RetNum(h, v) == Ret(h, "num", 0, 0, v, <<>>)
RetArr(h, arr) == Ret(h, "arr", 0, 0, NaN, arr)
RetSqrt(h, v) == Ret(h, "sqrt", 0, 0, v, <<>>)
Raise(h, exc) == Ret(h, exc, 0, 0, NaN, <<>>)
AsVal(r) == RVVal(r.x, r.pdf)

\* An array expression handed to a call: the array itself or its reversed
\* view a[::-1], which shares a's storage.
Whole(ref) == [ref |-> ref, rev |-> FALSE]
View(ref) == [ref |-> ref, rev |-> TRUE]
Read(h, a) == IF a.rev THEN Reversed(h[a.ref]) ELSE h[a.ref]

\* ------------------------------------------------- class RandomVariable
\* A constructor that sorts x and leaves pdf in the order it was handed.
RVInitSortsXOnly(h, x, pdf) ==
    {RetRV(Append(Append(h, Take(Read(h, x), sort_idx)), Read(h, pdf)),
           Len(h) + 1, Len(h) + 2) : sort_idx \in ArgSort(Read(h, x))}

\* __init__(self, x, pdf): both arrays are re-indexed by argsort(x); fancy
\* indexing makes the two arrays the object keeps fresh copies.
RVInit(h, x, pdf) ==
    {LET h1 == Append(h, Take(Read(h, x), sort_idx))
         h2 == Append(h1, Take(Read(h, pdf), sort_idx))
     IN  RetRV(h2, Len(h) + 1, Len(h) + 2) : sort_idx \in ArgSort(Read(h, x))}

\* The values np.random.rand may draw.
Uniforms == {Q(1, 4), Q(3, 4)}

\* cdf /= cdf[-1], in place on the array at reference cdf.
DivideByLast(h, cdf) ==
    [h EXCEPT ![cdf] = ArrDivScalar(h[cdf], h[cdf][Len(h[cdf])])]

\* np.interp(u, cdf, self.x) for the draws u.
Inverted(h, cdf, self, u) == RetArr(h, Interp(u, h[cdf], h[self.x]))

\* A sample() that accumulates and normalises in the pdf array itself.
sampleInPlace(h, self, n) ==
    {Inverted(DivideByLast([h EXCEPT ![self.pdf] = CumSum(h[self.pdf])], self.pdf),
              self.pdf, self, u) : u \in [1..n -> Uniforms]}

sample(h, self, n) ==
    {Inverted(DivideByLast(Append(h, CumSum(h[self.pdf])), Len(h) + 1),
              Len(h) + 1, self, u) : u \in [1..n -> Uniforms]}

x_min(h, self) == h[self.x][1]
x_max(h, self) == h[self.x][Len(h[self.x])]

\* Python's min and max of two numbers.
PyMin(a, b) == IF QLt(b, a) THEN b ELSE a
PyMax(a, b) == IF QLt(a, b) THEN b ELSE a

\* The sum of two RandomVariables on the common grid x_range.
AddOnGrid(h, self, other, x_range) ==
    RVInit(Append(Append(h, x_range),
                  ArrMulScalar(ConvolveSame(Interp(x_range, h[self.x], h[self.pdf]),
                                            Interp(x_range, h[other.x], h[other.pdf])),
                               QSub(x_range[2], x_range[1]))),
           Whole(Len(h) + 1), Whole(Len(h) + 2))

add(h, self, other) ==
    IF other.tag = "num" THEN
        RVInit(Append(h, ArrAddScalar(h[self.x], other.v)),
               Whole(Len(h) + 1), Whole(self.pdf))
    ELSE
        AddOnGrid(h, self, other,
                  Linspace(PyMin(x_min(h, self), x_min(h, other)),
                           PyMax(x_max(h, self), x_max(h, other)), NumGrid))

radd(h, self, other) == add(h, self, other)

\* A negation that mirrors x and leaves pdf as it is.
negKeepsPdf(h, self) ==
    RVInit(Append(h, ArrNeg(Reversed(h[self.x]))), Whole(Len(h) + 1), Whole(self.pdf))

neg(h, self) ==
    RVInit(Append(h, ArrNeg(Reversed(h[self.x]))), Whole(Len(h) + 1), View(self.pdf))

\* -other, for a number or a RandomVariable.
Negated(h, other) ==
    IF other.tag = "num" THEN {[h |-> h, val |-> NumVal(QNeg(other.v))]}
    ELSE {[h |-> r.h, val |-> AsVal(r)] : r \in neg(h, other)}

sub(h, self, other) ==
    UNION {add(m.h, self, m.val) : m \in Negated(h, other)}

\* A right-subtraction without the outer negation: self - other.
rsubKeepsSign(h, self, other) ==
    UNION {add(m.h, self, m.val) : m \in Negated(h, other)}

rsub(h, self, other) ==
    UNION {UNION {neg(r.h, AsVal(r)) : r \in add(m.h, self, m.val)} :
              m \in Negated(h, other)}

\* The histogram of the finite entries of `samples`, as a RandomVariable.
FromHistogram(h, hist) ==
    RVInit(Append(Append(h, BinCentres(hist[2])), hist[1]),
           Whole(Len(h) + 1), Whole(Len(h) + 2))

FromSamples(h, samples) ==
    UNION {FromHistogram(h, Histogram(FiniteOnly(samples), bins)) :
              bins \in AutoBins(FiniteOnly(samples))}

mul(h, self, other) ==
    IF other.tag = "num" THEN
        RVInit(Append(h, ArrMulScalar(h[self.x], other.v)),
               Whole(Len(h) + 1), Whole(self.pdf))
    ELSE
        UNION {UNION {FromSamples(s2.h, ArrMul(s1.arr, s2.arr)) :
                         s2 \in sample(s1.h, other, NumSamples)} :
                  s1 \in sample(h, self, NumSamples)}

rmul(h, self, other) == mul(h, self, other)

truediv(h, self, other) ==
    IF other.tag = "num" THEN
        RVInit(Append(h, ArrDivScalar(h[self.x], other.v)),
               Whole(Len(h) + 1), Whole(self.pdf))
    ELSE
        UNION {UNION {FromSamples(s2.h, ArrDiv(s1.arr, s2.arr)) :
                         s2 \in sample(s1.h, other, NumSamples)} :
                  s1 \in sample(h, self, NumSamples)}

\* other.sample exists only when `other` is a RandomVariable.
rtruediv(h, self, other) ==
    UNION {IF other.tag # "rv" THEN {Raise(s1.h, "AttributeError")}
           ELSE UNION {FromSamples(s2.h, ArrDiv(s2.arr, s1.arr)) :
                          s2 \in sample(s1.h, other, NumSamples)} :
              s1 \in sample(h, self, NumSamples)}

\* RandomVariable.max(*rvs)
IsRV(rv) == rv.tag = "rv"
IsNumber(rv) == rv.tag = "num"

RECURSIVE PyMinOf(_)
PyMinOf(s) == IF Len(s) = 1 THEN s[1] ELSE PyMin(PyMinOf(SubSeq(s, 1, Len(s) - 1)), s[Len(s)])

RECURSIVE PyMaxOf(_)
PyMaxOf(s) == IF Len(s) = 1 THEN s[1] ELSE PyMax(PyMaxOf(SubSeq(s, 1, Len(s) - 1)), s[Len(s)])

\* The density maximum() gives operand rv on the grid.
GridPdf(h, rv, x_range) ==
    IF IsRV(rv) THEN Interp(x_range, h[rv.x], h[rv.pdf])
    ELSE Interp(x_range, <<rv.v, rv.v>>, <<Num(1), Num(1)>>)

GridCdf(pdf, dx) == ArrMulScalar(CumSum(pdf), dx)

\* pdf_max += term, in place on the array at reference acc.
AddInPlace(h, acc, term) == [h EXCEPT ![acc] = Map2(QAdd, h[acc], term)]

\* The loop `pdf_max += pdf * cdf` over the first k operands.
RECURSIVE Accumulate(_, _, _, _, _)
Accumulate(h, acc, pdfs, cdfs, k) ==
    IF k = 0 THEN h
    ELSE AddInPlace(Accumulate(h, acc, pdfs, cdfs, k - 1), acc,
                    ArrMul(pdfs[k], cdfs[k]))

MaxOfGrids(h, x_range, pdfs, cdfs) ==
    RVInit(Accumulate(Append(Append(h, x_range), Array([i \in 1..NumGrid |-> Num(0)])),
                      Len(h) + 2, pdfs, cdfs, Len(pdfs)),
           Whole(Len(h) + 1), Whole(Len(h) + 2))

MaxOfPdfs(h, x_range, dx, pdfs) ==
    MaxOfGrids(h, x_range, pdfs, Array([k \in 1..Len(pdfs) |-> GridCdf(pdfs[k], dx)]))

MaxOnGrid(h, rvs, x_range) ==
    MaxOfPdfs(h, x_range, QSub(x_range[2], x_range[1]),
              Array([k \in 1..Len(rvs) |-> GridPdf(h, rvs[k], x_range)]))

\* A check that looks at the first argument only.
BadFirstArgument(rvs) == Len(rvs) > 0 /\ ~(IsRV(rvs[1]) \/ IsNumber(rvs[1]))

\* not all(isinstance(rv, (RandomVariable, float, int)) for rv in rvs)
BadArguments(rvs) == ~(\A k \in 1..Len(rvs) : IsRV(rvs[k]) \/ IsNumber(rvs[k]))

max(h, rvs) ==
    IF BadArguments(rvs) THEN {Raise(h, "TypeError")}
    ELSE IF \A k \in 1..Len(rvs) : IsNumber(rvs[k]) THEN
        (IF Len(rvs) = 0 THEN {Raise(h, "ValueError")}
         ELSE {RetNum(h, PyMaxOf([k \in 1..Len(rvs) |-> rvs[k].v]))})
    ELSE
        MaxOnGrid(h, rvs,
                  Linspace(PyMinOf([k \in 1..Len(rvs) |->
                               IF IsRV(rvs[k]) THEN x_min(h, rvs[k]) ELSE rvs[k].v]),
                           PyMaxOf([k \in 1..Len(rvs) |->
                               IF IsRV(rvs[k]) THEN x_max(h, rvs[k]) ELSE rvs[k].v]),
                           NumGrid))

\* An expectation that averages the products instead of summing them.
expectationAveraged(h, self) ==
    QDiv(NpSum(ArrMul(h[self.x], h[self.pdf])), Num(Len(h[self.x])))

expectation(h, self) == NpSum(ArrMul(h[self.x], h[self.pdf]))

mean(h, self) == expectation(h, self)

Square(a) == QMul(a, a)

\* A variance that does not square the deviations.
varianceUnsquared(h, self) ==
    NpSum(ArrMul(ArrAddScalar(h[self.x], QNeg(mean(h, self))), h[self.pdf]))

variance(h, self) ==
    NpSum(ArrMul(Map1(Square, ArrAddScalar(h[self.x], QNeg(mean(h, self)))), h[self.pdf]))

var(h, self) == variance(h, self)

\* np.sqrt(self.variance()): the returned float is the root of this number.
std(h, self) == RetSqrt(h, variance(h, self))

\* ---------------------------------------------------------------- inputs
XVals == {Num(0), Num(1)}                \* sample locations a caller supplies
PVals == {Q(1, 2), Num(1)}               \* densities a caller supplies
Scalars == {Num(-1), Num(0), Num(2)}     \* plain-number operands
Divisors == Scalars \ {Num(0)}           \* a zero divisor leaves x non-finite

Objects == {RVVal(objs[i].x, objs[i].pdf) : i \in 1..Len(objs)}
Numbers == {NumVal(c) : c \in Scalars}
MaxNumbers == {NumVal(Num(-1)), NumVal(Num(2))}   \* numbers handed to max()
ArgLists == UNION {[1..n -> Objects \cup MaxNumbers \cup {BadVal}] : n \in 0..MaxArgs}

\* ------------------------------------------------------------ the calls
\* The caller's state after a call named op returned outcome r: the arrays
\* that were alive before it (the first `base` of r.h) stay, a returned
\* RandomVariable joins the store with the arrays it references, and every
\* other array of r.h is garbage.
Commit(op, args, r, base) ==
    LET isrv == r.kind = "rv"
        fx == isrv /\ r.x > base
        fp == isrv /\ r.pdf > base /\ r.pdf # r.x
        nx == IF ~isrv THEN 0 ELSE IF fx THEN base + 1 ELSE r.x
        np == IF ~isrv THEN 0
              ELSE IF r.pdf = r.x THEN nx
              ELSE IF ~fp THEN r.pdf
              ELSE IF fx THEN base + 2 ELSE base + 1
    IN  /\ heap' = SubSeq(r.h, 1, base)
                     \o (IF fx THEN <<r.h[r.x]>> ELSE <<>>)
                     \o (IF fp THEN <<r.h[r.pdf]>> ELSE <<>>)
        /\ objs' = IF isrv
                   THEN Append(objs, [x |-> nx, pdf |-> np,
                                      by |-> [op |-> op, args |-> args]])
                   ELSE objs
        /\ last' = [op |-> op, kind |-> r.kind]

Init ==
    /\ heap = <<>>
    /\ objs = <<>>
    /\ last = [op |-> "none", kind |-> "none"]

\* A call that returns a RandomVariable is made on the constructed one and
\* on numbers; every other call is made on its result as well.
Room == Len(objs) < 2

\* RandomVariable(x, pdf) on two arrays of the caller, which stay the caller's.
Construct ==
    /\ objs = <<>>
    /\ \E n \in 1..MaxLen : \E x \in [1..n -> XVals] : \E pdf \in [1..n -> PVals] :
        LET h0 == Append(Append(heap, x), pdf)
            xr == Len(heap) + 1
            pr == Len(heap) + 2
        IN  \E r \in RVInit(h0, Whole(xr), Whole(pr)) :
                Commit("init", <<RVVal(xr, pr)>>, r, Len(h0))

Sample ==
    \E self \in Objects : \E r \in sample(heap, self, NumSamples) :
        Commit("sample", <<self>>, r, Len(heap))

\* self + number
AddNum ==
    /\ Room
    /\ \E self \in Objects : \E other \in Numbers : \E r \in add(heap, self, other) :
        Commit("add", <<self, other>>, r, Len(heap))

\* self + RandomVariable
AddRV ==
    /\ Room
    /\ \E self \in Objects : \E other \in Objects : \E r \in add(heap, self, other) :
        Commit("add", <<self, other>>, r, Len(heap))

\* number + self
RAdd ==
    /\ Room
    /\ \E self \in Objects : \E other \in Numbers : \E r \in radd(heap, self, other) :
        Commit("radd", <<self, other>>, r, Len(heap))

SubNum ==
    /\ Room
    /\ \E self \in Objects : \E other \in Numbers : \E r \in sub(heap, self, other) :
        Commit("sub", <<self, other>>, r, Len(heap))

SubRV ==
    /\ Room
    /\ \E self \in Objects : \E other \in Objects : \E r \in sub(heap, self, other) :
        Commit("sub", <<self, other>>, r, Len(heap))

\* number - self
RSub ==
    /\ Room
    /\ \E self \in Objects : \E other \in Numbers : \E r \in rsub(heap, self, other) :
        Commit("rsub", <<self, other>>, r, Len(heap))

Neg ==
    /\ Room
    /\ \E self \in Objects : \E r \in neg(heap, self) :
        Commit("neg", <<self>>, r, Len(heap))

MulNum ==
    /\ Room
    /\ \E self \in Objects : \E other \in Numbers : \E r \in mul(heap, self, other) :
        Commit("mul", <<self, other>>, r, Len(heap))

MulRV ==
    /\ Room
    /\ \E self \in Objects : \E other \in Objects : \E r \in mul(heap, self, other) :
        Commit("mul", <<self, other>>, r, Len(heap))

\* number * self
RMul ==
    /\ Room
    /\ \E self \in Objects : \E other \in Numbers : \E r \in rmul(heap, self, other) :
        Commit("rmul", <<self, other>>, r, Len(heap))

TrueDivNum ==
    /\ Room
    /\ \E self \in Objects : \E other \in {NumVal(c) : c \in Divisors} :
        \E r \in truediv(heap, self, other) :
            Commit("truediv", <<self, other>>, r, Len(heap))

TrueDivRV ==
    /\ Room
    /\ \E self \in Objects : \E other \in Objects : \E r \in truediv(heap, self, other) :
        Commit("truediv", <<self, other>>, r, Len(heap))

\* number / self: Python falls back to the reflected method.
RTrueDiv ==
    \E self \in Objects : \E other \in Numbers : \E r \in rtruediv(heap, self, other) :
        Commit("rtruediv", <<self, other>>, r, Len(heap))

\* The argument lists max() takes to the grid: all RandomVariables or
\* numbers, one at least a RandomVariable.
OnGrid(rvs) ==
    /\ \A k \in 1..Len(rvs) : IsRV(rvs[k]) \/ IsNumber(rvs[k])
    /\ \E k \in 1..Len(rvs) : IsRV(rvs[k])

MaxRV ==
    /\ Room
    /\ \E rvs \in ArgLists :
        /\ OnGrid(rvs)
        /\ \E r \in max(heap, rvs) : Commit("max", rvs, r, Len(heap))

\* max() of any other arguments.
MaxOther ==
    \E rvs \in ArgLists :
        /\ ~OnGrid(rvs)
        /\ \E r \in max(heap, rvs) : Commit("max", rvs, r, Len(heap))

Mean ==
    \E self \in Objects :
        Commit("mean", <<self>>, RetNum(heap, mean(heap, self)), Len(heap))

Variance ==
    \E self \in Objects :
        Commit("variance", <<self>>, RetNum(heap, variance(heap, self)), Len(heap))

Var ==
    \E self \in Objects :
        Commit("var", <<self>>, RetNum(heap, var(heap, self)), Len(heap))

Std ==
    \E self \in Objects :
        Commit("std", <<self>>, std(heap, self), Len(heap))

\* The exact operations: construction and arithmetic with a plain number.
NextExact ==
    \/ Construct
    \/ AddNum
    \/ RAdd
    \/ SubNum
    \/ RSub
    \/ Neg
    \/ MulNum
    \/ RMul
    \/ TrueDivNum

SpecExact == Init /\ [][NextExact]_vars

\* Shifting, scaling and the statistics.
NextStats ==
    \/ Construct
    \/ AddNum
    \/ MulNum
    \/ Mean
    \/ Variance
    \/ Var
    \/ Std

SpecStats == Init /\ [][NextStats]_vars

\* Construction and max().
NextMax ==
    \/ Construct
    \/ MaxRV
    \/ MaxOther

SpecMax == Init /\ [][NextMax]_vars

\* Every operation of the class.
Next ==
    \/ Construct
    \/ AddNum
    \/ AddRV
    \/ RAdd
    \/ SubNum
    \/ SubRV
    \/ RSub
    \/ Neg
    \/ MulNum
    \/ MulRV
    \/ RMul
    \/ TrueDivNum
    \/ TrueDivRV
    \/ RTrueDiv
    \/ MaxRV
    \/ MaxOther
    \/ Sample
    \/ Mean
    \/ Variance
    \/ Var
    \/ Std

Spec == Init /\ [][Next]_vars

\* ------------------------------------------------------------ properties
\* The arrays of a RandomVariable, and of the i-th one of the store.
XOf(v) == heap[v.x]
PdfOf(v) == heap[v.pdf]
Obj(i) == RVVal(objs[i].x, objs[i].pdf)

\* The operands of the call that made the i-th RandomVariable.
Self(i) == objs[i].by.args[1]
Other(i) == objs[i].by.args[2]
MadeBy(i, ops) == objs[i].by.op \in ops
ByNumber(i) == MadeBy(i, {"add", "radd", "sub", "rsub", "mul", "rmul", "truediv"})
                   /\ Other(i).tag = "num"

NonDecreasing(x) == \A k \in 1..(Len(x) - 1) : QLe(x[k], x[k + 1])
Increasing(x) == \A k \in 1..(Len(x) - 1) : QLt(x[k], x[k + 1])

\* Whether (x1[k], p1[k]) and (x2[k], p2[k]) are the same pairs, each as
\* often, in some order.
SamePairs(x1, p1, x2, p2) ==
    /\ Len(x1) = Len(x2) /\ Len(p1) = Len(x1) /\ Len(p2) = Len(x2)
    /\ \E q \in Permutations(1..Len(x1)) :
           \A k \in 1..Len(x1) : x1[k] = x2[q[k]] /\ p1[k] = p2[q[k]]

\* What an outcome holds: its x and its pdf.
Shape(r) == <<r.h[r.x], r.h[r.pdf]>>
Shapes(rs) == {Shape(r) : r \in rs}

\* The locations the call op defines from the locations x and the number c.
DefinedX(op, x, c) ==
    Array([k \in 1..Len(x) |->
        CASE op \in {"add", "radd"} -> QAdd(x[k], c)
          [] op = "sub" -> QSub(x[k], c)
          [] op = "rsub" -> QSub(c, x[k])
          [] op = "neg" -> QNeg(x[k])
          [] op \in {"mul", "rmul"} -> QMul(x[k], c)
          [] op = "truediv" -> QDiv(x[k], c)
          [] OTHER -> x[k]])

\* Every outcome of an exact operation on self.
ExactOutcomes(h, self) ==
    neg(h, self) \cup UNION {add(h, self, c) \cup radd(h, self, c) \cup sub(h, self, c)
                               \cup rsub(h, self, c) \cup mul(h, self, c)
                               \cup rmul(h, self, c) : c \in Numbers}
                 \cup UNION {truediv(h, self, NumVal(c)) : c \in Divisors}

C6_NegationMirrors ==
    \A i \in 1..Len(objs) : MadeBy(i, {"neg"}) =>
        /\ XOf(Obj(i)) = ArrNeg(Reversed(XOf(Self(i))))
        /\ SamePairs(XOf(Obj(i)), PdfOf(Obj(i)), ArrNeg(XOf(Self(i))), PdfOf(Self(i)))
        /\ Increasing(XOf(Self(i))) => PdfOf(Obj(i)) = Reversed(PdfOf(Self(i)))
        /\ \A r \in neg(heap, Obj(i)) :
               /\ Shape(r)[1] = XOf(Self(i))
               /\ SamePairs(Shape(r)[1], Shape(r)[2], XOf(Self(i)), PdfOf(Self(i)))
               /\ Increasing(XOf(Self(i))) => Shape(r)[2] = PdfOf(Self(i))

\* A RandomVariable with two different locations and two different
\* densities was negated.
C6_Witness ==
    \E i \in 1..Len(objs) :
        /\ MadeBy(i, {"neg"})
        /\ Len(XOf(Self(i))) = 2 /\ Increasing(XOf(Self(i)))
        /\ PdfOf(Self(i))[1] # PdfOf(Self(i))[2]
        /\ PdfOf(Obj(i)) = Reversed(PdfOf(Self(i)))

\* C6 as stated: -D has the reversed pdf sequence of D and -(-D) has the
\* x sequence and the pdf sequence of D, whatever the locations.
C6_AsStated ==
    \A i \in 1..Len(objs) : MadeBy(i, {"neg"}) =>
        /\ XOf(Obj(i)) = ArrNeg(Reversed(XOf(Self(i))))
        /\ PdfOf(Obj(i)) = Reversed(PdfOf(Self(i)))
        /\ \A r \in neg(heap, Obj(i)) :
               Shape(r) = <<XOf(Self(i)), PdfOf(Self(i))>>

\* C7: c - D has the locations c - x[i] in ascending order, each with the
\* density D has at x[i], and is what (-D) + c is; D - c is what D + (-c)
\* is, and D1 - D2 is what D1 + (-D2) is.
C7_NegateThenShift ==
    /\ \A i \in 1..Len(objs) : (MadeBy(i, {"rsub"}) /\ ByNumber(i)) =>
           /\ NonDecreasing(XOf(Obj(i)))
           /\ SamePairs(XOf(Obj(i)), PdfOf(Obj(i)),
                        [k \in 1..Len(XOf(Self(i))) |-> QSub(Other(i).v, XOf(Self(i))[k])],
                        PdfOf(Self(i)))
    /\ \A c \in Numbers : (objs # <<>> /\ MadeBy(Len(objs), {"init", "neg"})) =>
           /\ Shapes(rsub(heap, Obj(Len(objs)), c))
                  = Shapes(UNION {add(r.h, AsVal(r), c) : r \in neg(heap, Obj(Len(objs)))})
           /\ Shapes(sub(heap, Obj(Len(objs)), c))
                  = Shapes(add(heap, Obj(Len(objs)), NumVal(QNeg(c.v))))
    /\ (objs # <<>> /\ MadeBy(Len(objs), {"init", "neg"})) =>
           Shapes(sub(heap, Obj(Len(objs)), Obj(1)))
               = Shapes(UNION {add(r.h, Obj(Len(objs)), AsVal(r)) : r \in neg(heap, Obj(1))})

\* 2 - D was taken of a RandomVariable with two different locations and
\* two different densities.
C7_Witness ==
    \E i \in 1..Len(objs) :
        /\ MadeBy(i, {"rsub"}) /\ Other(i) = NumVal(Num(2))
        /\ Len(XOf(Self(i))) = 2 /\ Increasing(XOf(Self(i)))
        /\ PdfOf(Self(i))[1] # PdfOf(Self(i))[2]
        /\ XOf(Obj(i)) = <<QSub(Num(2), XOf(Self(i))[2]), QSub(Num(2), XOf(Self(i))[1])>>

\* C2: no call changes an array that was alive before it, nor a
\* RandomVariable of the store, and a returned RandomVariable keeps its x
\* and its pdf in two arrays of its own: none that was alive before the
\* call, and none of the caller's.
C2_OperandsUntouched ==
    [][/\ SubSeq(heap', 1, Len(heap)) = heap
       /\ SubSeq(objs', 1, Len(objs)) = objs
       /\ Len(objs') > Len(objs) =>
              /\ objs'[Len(objs')].x # objs'[Len(objs')].pdf
              /\ {objs'[Len(objs')].x, objs'[Len(objs')].pdf}
                     \cap (1..Len(heap) \cup {objs'[Len(objs')].by.args[1].x,
                                              objs'[Len(objs')].by.args[1].pdf}) = {}]_vars

\* A RandomVariable whose pdf does not end in 1 was negated, and sample()
\* was called afterwards: its arrays are those the constructor made.
C2_Witness ==
    /\ Len(objs) = 2 /\ MadeBy(2, {"neg"}) /\ Self(2) = Obj(1)
    /\ last = [op |-> "sample", kind |-> "arr"]
    /\ Len(PdfOf(Obj(1))) = 2 /\ PdfOf(Obj(1))[2] # Num(1)
    /\ SamePairs(XOf(Obj(1)), PdfOf(Obj(1)), XOf(Self(1)), PdfOf(Self(1)))

\* C3: max() of an argument list that holds something that is neither a
\* RandomVariable nor a number, wherever it stands and whatever the others
\* are, raises TypeError and nothing else, with no array made.
C3_TypeErrorFirst ==
    \A rvs \in ArgLists :
        (\E k \in 1..Len(rvs) : ~IsRV(rvs[k]) /\ ~IsNumber(rvs[k])) =>
            max(heap, rvs) = {Raise(heap, "TypeError")}

\* max() raised TypeError on arguments drawn from a RandomVariable, numbers
\* and one thing that is neither.
C3_Witness ==
    /\ last = [op |-> "max", kind |-> "TypeError"]
    /\ objs # <<>>
    /\ \E rvs \in ArgLists :
           /\ Len(rvs) = 2 /\ IsRV(rvs[1]) /\ rvs[2] = BadVal
           /\ max(heap, rvs) = {Raise(heap, "TypeError")}

\* C4 as amended: D + c has the locations of D shifted by c and the pairs
\* (x + c, pdf) of D, the pdf sequence of D when its locations are all
\* different, and its mean is D.mean() + c * sum(pdf): D.mean() + c when
\* the pdf sums to 1.
C4_ShiftMovesMeanByMass ==
    \A i \in 1..Len(objs) : (MadeBy(i, {"add"}) /\ ByNumber(i)) =>
        /\ XOf(Obj(i)) = ArrAddScalar(XOf(Self(i)), Other(i).v)
        /\ SamePairs(XOf(Obj(i)), PdfOf(Obj(i)),
                     ArrAddScalar(XOf(Self(i)), Other(i).v), PdfOf(Self(i)))
        /\ Increasing(XOf(Self(i))) => PdfOf(Obj(i)) = PdfOf(Self(i))
        /\ mean(heap, Obj(i))
               = QAdd(mean(heap, Self(i)), QMul(Other(i).v, NpSum(PdfOf(Self(i)))))
        /\ NpSum(PdfOf(Self(i))) = Num(1) =>
               mean(heap, Obj(i)) = QAdd(mean(heap, Self(i)), Other(i).v)

\* 2 was added to a RandomVariable with two different locations whose pdf
\* sums to 1, and mean() was called.
C4_Witness ==
    /\ last = [op |-> "mean", kind |-> "num"]
    /\ \E i \in 1..Len(objs) :
           /\ MadeBy(i, {"add"}) /\ Other(i) = NumVal(Num(2))
           /\ Len(XOf(Self(i))) = 2 /\ Increasing(XOf(Self(i)))
           /\ NpSum(PdfOf(Self(i))) = Num(1)
           /\ mean(heap, Obj(i)) = QAdd(mean(heap, Self(i)), Num(2))

\* C4 as stated: D + c has the locations of D shifted by c, the pdf
\* sequence of D, and the mean D.mean() + c.
C4_AsStated ==
    \A i \in 1..Len(objs) : (MadeBy(i, {"add"}) /\ ByNumber(i)) =>
        /\ XOf(Obj(i)) = ArrAddScalar(XOf(Self(i)), Other(i).v)
        /\ PdfOf(Obj(i)) = PdfOf(Self(i))
        /\ mean(heap, Obj(i)) = QAdd(mean(heap, Self(i)), Other(i).v)

\* C5: D * c has the mean D.mean() * c and the variance
\* D.variance() * c * c, so that its std, the root of its variance, is
\* D.std() * |c|, for c positive, zero or negative.
C5_ScaleExact ==
    \A i \in 1..Len(objs) : (MadeBy(i, {"mul"}) /\ ByNumber(i)) =>
        /\ mean(heap, Obj(i)) = QMul(mean(heap, Self(i)), Other(i).v)
        /\ variance(heap, Obj(i)) = QMul(variance(heap, Self(i)), Square(Other(i).v))
        /\ var(heap, Obj(i)) = QMul(var(heap, Self(i)), Square(Other(i).v))
        /\ std(heap, Obj(i)) = RetSqrt(heap, QMul(variance(heap, Self(i)), Square(Other(i).v)))

\* A RandomVariable with two different locations and a variance was scaled
\* by -1, which made the constructor reverse them, and std() was called.
C5_Witness ==
    /\ last = [op |-> "std", kind |-> "sqrt"]
    /\ \E i \in 1..Len(objs) :
           /\ MadeBy(i, {"mul"}) /\ Other(i) = NumVal(Num(-1))
           /\ Len(XOf(Self(i))) = 2 /\ Increasing(XOf(Self(i)))
           /\ XOf(Obj(i)) # ArrMulScalar(XOf(Self(i)), Num(-1))
           /\ variance(heap, Self(i)) # Num(0)
           /\ mean(heap, Self(i)) # Num(0)

\* C8: number / D returns a RandomVariable.
C8_ScalarOverReturns ==
    last.op = "rtruediv" => last.kind = "rv"

\* C9: D1 + D2 is the density of the sum of the two variables: its
\* locations run from x_min(D1) + x_min(D2) to x_max(D1) + x_max(D2), as
\* those of the triangular distribution on [0, 2] do for two uniform
\* distributions on [0, 1].
C9_SumOfTwo ==
    \A i \in 1..Len(objs) : (MadeBy(i, {"add"}) /\ Other(i).tag = "rv") =>
        /\ x_min(heap, Obj(i)) = QAdd(x_min(heap, Self(i)), x_min(heap, Other(i)))
        /\ x_max(heap, Obj(i)) = QAdd(x_max(heap, Self(i)), x_max(heap, Other(i)))

\* C10: in max() of RandomVariables and numbers, the density a number c
\* contributes on the common grid is zero at every grid point other than c.
C10_ScalarIsPointMass ==
    \A i \in 1..Len(objs) : MadeBy(i, {"max"}) =>
        \A k \in 1..Len(objs[i].by.args) : IsNumber(objs[i].by.args[k]) =>
            \A g \in 1..Len(XOf(Obj(i))) :
                GridPdf(heap, objs[i].by.args[k], XOf(Obj(i)))[g] # Num(0) =>
                    XOf(Obj(i))[g] = objs[i].by.args[k].v

====
